---- MODULE Spec2Model ----
(***************************************************************************)
(* The authoriser (authoriser/main.go): a credential relay.  main creates  *)
(* a Tailscale auth key, starts the funnel server in a goroutine, sends a  *)
(* Pushover notification, binds a unix socket and serves the password that *)
(* the funnel's POST / handler stored in the shared variable `password`.   *)
(*                                                                         *)
(* Goroutines of the model: main, StartFunnelServer, one per public        *)
(* request, one per local request, and the signal goroutine.  `password`   *)
(* is a Go string shared without synchronisation: a string is two words    *)
(* (data pointer, length), stored and loaded one word at a time.           *)
(***************************************************************************)
EXTENDS Integers, Sequences, FiniteSets, Bags, TLC

\* ---- bounds of the model
MaxConns == 2      \* public connections the funnel listener accepts
MaxPolls == 1      \* local clients polling the relay, one request at a time each

\* ---- program constants
ChanCap == 1       \* make(chan os.Signal, 1)
ExitFatal == 1     \* os.Exit(1), also what log.Fatal exits with
NotFound == 404    \* w.WriteHeader(404)
StatusOK == 200    \* w.WriteHeader(200)

Nil == <<"nil">>
Values == {<<>>, <<"a">>, <<"b", "c">>}
Signals == {"SIGINT", "SIGTERM"}
Words == {"ptr", "len"}

\* ---- the Go string: a header of two words
\* The header of the string value v; the empty string has no backing array.
StringHeader(v) == [ptr |-> IF v = <<>> THEN Nil ELSE v, len |-> Len(v)]

\* The bytes a reader gets from a header.  A header whose words come from two
\* different strings reads a prefix of the array or bytes past its end ("?");
\* a nil pointer with a length faults.
Faults(h) == h.len > 0 /\ h.ptr = Nil
Bytes(h) ==
    IF h.len = 0 \/ h.ptr = Nil THEN <<>>
    ELSE IF h.len <= Len(h.ptr) THEN SubSeq(h.ptr, 1, h.len)
    ELSE h.ptr \o [i \in 1..(h.len - Len(h.ptr)) |-> "?"]

\* ---- request bodies of POST / and r.FormValue("password") after r.ParseForm()
\* field: the name of the form field; enc: whether the value is validly
\* percent-encoded; val: the decoded value.
Bodies ==
    [field : {"password"}, enc : {"ok"}, val : Values]
    \cup {[field |-> "password", enc |-> "bad", val |-> <<"a">>],
          [field |-> "other", enc |-> "ok", val |-> <<"a">>]}

\* ParseForm drops a pair it cannot decode (its error is ignored) and
\* FormValue returns "" for a key that is not in the form.
FormValue(body, key) ==
    IF body.field = key /\ body.enc = "ok" THEN body.val ELSE <<>>

\* ---- responses of the credential-issuance endpoint
\* "credential": 200 with {id,key,created,expires}; "nonCredential": any other
\* answer (a non-2xx status with a JSON error body, or a body that is not JSON).
Responses == {"credential", "nonCredential"}

\* json.Unmarshal into CreateAuthKeyResponse, error ignored: the Key field.
UnmarshalKey(r) == IF r = "credential" THEN "tskey" ELSE ""

VARIABLES
    mainPc,      \* position of main
    proc,        \* "running" | "exited" (os.Exit) | "killed" (by a signal)
    exitStatus,  \* the argument of os.Exit; 0 while running
    resp,        \* the unread body of the issuance endpoint's response, or "none"
    provErr,     \* "none" | the error client.Post or io.ReadAll returned
    authKey,     \* createAuthKey.Key; "spent" once the node has registered with it
    funnelPc,    \* position of the StartFunnelServer goroutine
    ln,          \* the funnel listener: "none" | "open" | "closed"
    password,    \* the shared string header
    conns,       \* public connections and the handler each is running
    notifyCalls, \* number of app.SendMessage calls
    notifyErr,   \* whether app.SendMessage returned an error
    sockFile,    \* the socket path: "none" | "mine" | "other"
    sigInstalled,\* signal.Notify has run
    sigChan,     \* the channel c: how many signals it buffers (<-c drops the value)
    sigPc,       \* position of the signal goroutine
    polls,       \* the local relay's handlers that are running
    lastResp     \* the response the local relay sent last

vars == <<mainPc, proc, exitStatus, resp, provErr, authKey, funnelPc, ln,
          password, conns, notifyCalls, notifyErr, sockFile,
          sigInstalled, sigChan, sigPc, polls, lastResp>>

\* what an exit leaves as it is: positions, history and the file system
keptVars == <<mainPc, resp, provErr, authKey, funnelPc, notifyCalls,
              notifyErr, sockFile, sigInstalled, sigPc, lastResp>>
mainVars == <<mainPc, resp, provErr, authKey>>
exitVars == <<proc, exitStatus>>

Running == proc = "running"

\* Connections are alike and so are the local relay's handlers: each
\* collection is a bag of the states of its members.
IdleConn == [pc |-> "idle", val |-> <<>>, stored |-> {}, first |-> FALSE]
NoResp == [status |-> 0, body |-> <<>>]
Put(bag, new) == bag (+) SetToBag({new})
Replace(bag, old, new) == (bag (-) SetToBag({old})) (+) SetToBag({new})

\* The process ends (os.Exit, or the default action of a signal): its memory,
\* its goroutines, its channel and its open sockets are gone.
Terminate(how, code) ==
    /\ proc' = how
    /\ exitStatus' = code
    /\ password' = StringHeader(<<>>)
    /\ conns' = EmptyBag
    /\ polls' = EmptyBag
    /\ ln' = IF ln = "none" THEN "none" ELSE "closed"
    /\ sigChan' = 0

\* os.Exit(code)
Exit(code) == Terminate("exited", code)

\* the rest of the state when an action does not end the process
Alive == UNCHANGED <<exitVars, password, conns, polls, ln, sigChan>>

Init ==
    /\ mainPc = "loadConfig"
    /\ proc = "running"
    /\ exitStatus = 0
    /\ resp = "none"
    /\ provErr = "none"
    /\ authKey = ""
    /\ funnelPc = "notStarted"
    /\ ln = "none"
    /\ password = StringHeader(<<>>)
    /\ conns = EmptyBag
    /\ notifyCalls = 0
    /\ notifyErr = FALSE
    /\ sockFile \in {"none", "other"}
    /\ sigInstalled = FALSE
    /\ sigChan = 0
    /\ sigPc = "notStarted"
    /\ polls = EmptyBag
    /\ lastResp = NoResp

\* ======================= main ==========================================

\* toml.DecodeFile: on error log.Fatal
LoadConfig ==
    /\ Running /\ mainPc = "loadConfig"
    /\ \/ mainPc' = "createAuthKey" /\ Alive
       \/ mainPc' = "fatal" /\ Exit(ExitFatal)
    /\ UNCHANGED <<resp, provErr, authKey, funnelPc, notifyCalls,
                   notifyErr, sockFile, sigInstalled, sigPc, lastResp>>

\* client.Post: err # nil when the transport fails or the OAuth token cannot
\* be fetched; any HTTP response, whatever its status, comes back with err = nil.
CreateAuthKey ==
    /\ Running /\ mainPc = "createAuthKey"
    /\ \/ \E e \in {"transport", "token"} :
            /\ provErr' = e /\ mainPc' = "fatal" /\ Exit(ExitFatal)
            /\ UNCHANGED resp
       \/ \E r \in Responses :
            /\ resp' = r /\ mainPc' = "readBody"
            /\ UNCHANGED provErr /\ Alive
    /\ UNCHANGED <<authKey, funnelPc, notifyCalls, notifyErr,
                   sockFile, sigInstalled, sigPc, lastResp>>

\* io.ReadAll (on error log.Fatal), then json.Unmarshal whose error is
\* dropped, then password := ""
ReadBody ==
    /\ Running /\ mainPc = "readBody"
    /\ \/ /\ provErr' = "read" /\ mainPc' = "fatal" /\ Exit(ExitFatal)
          /\ UNCHANGED <<authKey, resp>>
       \/ /\ authKey' = UnmarshalKey(resp)
          /\ resp' = "none"
          /\ password' = StringHeader(<<>>)
          /\ mainPc' = "goFunnel"
          /\ UNCHANGED <<provErr, exitVars, conns, polls, ln, sigChan>>
    /\ UNCHANGED <<funnelPc, notifyCalls, notifyErr, sockFile,
                   sigInstalled, sigPc, lastResp>>

\* go StartFunnelServer(createAuthKey.Key, &password)
GoFunnel ==
    /\ Running /\ mainPc = "goFunnel"
    /\ funnelPc' = "listenFunnel"
    /\ mainPc' = "notify"
    /\ Alive
    /\ UNCHANGED <<resp, provErr, authKey, notifyCalls, notifyErr,
                   sockFile, sigInstalled, sigPc, lastResp>>

\* (variant) the error of app.SendMessage is logged and main goes on
SendMessageNotFatal ==
    /\ Running /\ mainPc = "notify"
    /\ notifyCalls' = notifyCalls + 1
    /\ mainPc' = "listenUnix"
    /\ notifyErr' \in BOOLEAN
    /\ Alive
    /\ UNCHANGED <<resp, provErr, authKey, funnelPc, sockFile,
                   sigInstalled, sigPc, lastResp>>

\* (variant) app.SendMessage is called again after an error
SendMessageRetry ==
    /\ Running /\ mainPc = "notify"
    /\ notifyCalls' = notifyCalls + 1
    /\ \/ mainPc' = "listenUnix" /\ UNCHANGED notifyErr
       \/ notifyCalls = 0 /\ notifyErr' = TRUE /\ UNCHANGED mainPc
    /\ Alive
    /\ UNCHANGED <<resp, provErr, authKey, funnelPc, sockFile,
                   sigInstalled, sigPc, lastResp>>

\* app.SendMessage: on error log.Fatal
SendMessage ==
    /\ Running /\ mainPc = "notify"
    /\ notifyCalls' = notifyCalls + 1
    /\ \/ mainPc' = "listenUnix" /\ UNCHANGED notifyErr /\ Alive
       \/ notifyErr' = TRUE /\ mainPc' = "fatal" /\ Exit(ExitFatal)
    /\ UNCHANGED <<resp, provErr, authKey, funnelPc, sockFile,
                   sigInstalled, sigPc, lastResp>>

\* (variant) the path is unlinked before net.Listen
ListenUnixUnlinkFirst ==
    /\ Running /\ mainPc = "listenUnix"
    /\ \/ /\ sockFile' = "mine"
          /\ mainPc' = "signalNotify"
          /\ Alive
       \/ /\ mainPc' = "fatal" /\ Exit(ExitFatal)
          /\ UNCHANGED sockFile
    /\ UNCHANGED <<resp, provErr, authKey, funnelPc, notifyCalls,
                   notifyErr, sigInstalled, sigPc, lastResp>>

\* net.Listen("unix", socketPath): fails when the path exists (address in
\* use) or cannot be created; on error log.Fatal
ListenUnix ==
    /\ Running /\ mainPc = "listenUnix"
    /\ \/ /\ sockFile = "none"
          /\ sockFile' = "mine"
          /\ mainPc' = "signalNotify"
          /\ Alive
       \/ /\ mainPc' = "fatal" /\ Exit(ExitFatal)
          /\ UNCHANGED sockFile
    /\ UNCHANGED <<resp, provErr, authKey, funnelPc, notifyCalls,
                   notifyErr, sigInstalled, sigPc, lastResp>>

\* (variant) the slot is initialised when the local relay is set up, after
\* the funnel goroutine was started
LocalServeResetsSlot ==
    /\ Running /\ mainPc = "signalNotify"
    /\ sigInstalled' = TRUE
    /\ sigPc' = "recv"
    /\ mainPc' = "serving"
    /\ password' = StringHeader(<<>>)
    /\ UNCHANGED <<exitVars, conns, polls, ln, sigChan>>
    /\ UNCHANGED <<resp, provErr, authKey, funnelPc, notifyCalls,
                   notifyErr, sockFile, lastResp>>

\* c := make(chan os.Signal, 1); signal.Notify(c, os.Interrupt, syscall.SIGTERM);
\* go func() { <-c; ... }(); then localMux, localSrv and localSrv.Serve(socket):
\* the accept loop of the local relay runs from here
LocalServe ==
    /\ Running /\ mainPc = "signalNotify"
    /\ sigInstalled' = TRUE
    /\ sigPc' = "recv"
    /\ mainPc' = "serving"
    /\ Alive
    /\ UNCHANGED <<resp, provErr, authKey, funnelPc, notifyCalls,
                   notifyErr, sockFile, lastResp>>

\* ======================= signals ========================================

\* SIGINT or SIGTERM reaches the process.  Before signal.Notify the default
\* action ends the process; after it the signal is sent to c without blocking
\* (dropped when c is full).
SignalDeliver(sig) ==
    /\ Running
    /\ IF ~sigInstalled THEN Terminate("killed", 0)
       ELSE /\ sigChan' = IF sigChan < ChanCap THEN sigChan + 1 ELSE sigChan
            /\ UNCHANGED <<exitVars, password, conns, polls, ln>>
    /\ UNCHANGED keptVars

\* the signal goroutine: <-c; os.Remove(socketPath); os.Exit(1)
SignalExit ==
    /\ Running /\ sigPc = "recv"
    /\ sigChan > 0
    /\ sockFile' = "none"
    /\ sigPc' = "exit"
    /\ Exit(ExitFatal)
    /\ UNCHANGED <<mainVars, funnelPc, notifyCalls, notifyErr,
                   sigInstalled, lastResp>>

\* ======================= StartFunnelServer ==============================

\* s := &tsnet.Server{AuthKey: authKey}; s.ListenFunnel("tcp", ":443"): the
\* node registers with the single-use key; on error log.Fatal
ListenFunnel ==
    /\ Running /\ funnelPc = "listenFunnel"
    /\ authKey' = "spent"
    /\ \/ /\ ln' = "open" /\ funnelPc' = "handle"
          /\ UNCHANGED <<exitVars, password, conns, polls, sigChan>>
       \/ funnelPc' = "fatal" /\ Exit(ExitFatal)
    /\ UNCHANGED <<mainPc, resp, provErr, notifyCalls, notifyErr, sockFile,
                   sigInstalled, sigPc, lastResp>>

\* http.HandleFunc("GET /"), http.HandleFunc("POST /"), http.Serve(ln, nil):
\* the accept loop runs from here
FunnelServe ==
    /\ Running /\ funnelPc = "handle"
    /\ funnelPc' = "serving"
    /\ Alive
    /\ UNCHANGED <<mainVars, notifyCalls, notifyErr, sockFile,
                   sigInstalled, sigPc, lastResp>>

\* ln.Accept() in http.Serve returns a connection; its goroutine serves the
\* requests of that connection one after the other (keep-alive).
PublicAccept ==
    /\ Running /\ funnelPc = "serving" /\ ln = "open"
    /\ BagCardinality(conns) < MaxConns
    /\ conns' = Put(conns, IdleConn)
    /\ UNCHANGED <<exitVars, password, polls, ln, sigChan, keptVars>>

\* (variant) the "GET /" handler closes the listener as the "POST /" one does
PublicGetCloses(h) ==
    /\ Running /\ h.pc = "idle"
    /\ conns' = Replace(conns, h, [h EXCEPT !.pc = "form"])
    /\ ln' = "closed"
    /\ UNCHANGED <<exitVars, password, polls, sigChan, keptVars>>

\* "GET /" handler: fmt.Fprintln(w, form)
PublicGet(h) ==
    /\ Running /\ h.pc = "idle"
    /\ conns' = Replace(conns, h, [h EXCEPT !.pc = "form"])
    /\ UNCHANGED <<exitVars, password, polls, ln, sigChan, keptVars>>

\* the "GET /" handler has returned: the form is sent, the connection reads
\* its next request
PublicGetDone(h) ==
    /\ Running /\ h.pc = "form"
    /\ conns' = Replace(conns, h, IdleConn)
    /\ UNCHANGED <<exitVars, password, polls, ln, sigChan, keptVars>>

\* Some POST / has been dispatched: one is being handled, or one has returned
\* (every return closes the listener and nothing else does).
PostSeen ==
    \/ ln = "closed"
    \/ \E h \in BagToSet(conns) : h.pc \in {"store", "close", "flush"}

\* "POST /" handler, entry: defer ln.Close(); r.ParseForm(); r.FormValue("password")
\* first marks the handler of the first POST / dispatched, until it has stored.
PostDispatch(h, body) ==
    /\ Running /\ h.pc = "idle"
    /\ conns' = Replace(conns, h, [pc |-> "store",
                                   val |-> FormValue(body, "password"),
                                   stored |-> {},
                                   first |-> ~PostSeen])
    /\ UNCHANGED <<exitVars, password, polls, ln, sigChan, keptVars>>

\* *password = r.FormValue("password"): one word of the header per step, in
\* either order; after the second word, fmt.Fprintln(w, "...Saved password...")
\* writes the acknowledgment into the response buffer
PostStore(h, w) ==
    /\ Running /\ h.pc = "store"
    /\ w \notin h.stored
    /\ password' = [password EXCEPT ![w] = StringHeader(h.val)[w]]
    /\ conns' = Replace(conns, h,
                    IF h.stored \cup {w} = Words
                    THEN [pc |-> "close", val |-> <<>>, stored |-> Words, first |-> FALSE]
                    ELSE [h EXCEPT !.stored = {w}])
    /\ UNCHANGED <<exitVars, polls, ln, sigChan, keptVars>>

\* (variant) ln.Close() is called on entry instead of being deferred
PostCloseEarly(h) ==
    /\ Running /\ h.pc \in {"store", "close"}
    /\ ln' = "closed"
    /\ funnelPc' = "returned"
    /\ conns' = Replace(conns, h, [h EXCEPT !.pc = "flush"])
    /\ UNCHANGED <<exitVars, password, polls, sigChan, mainVars, notifyCalls,
                   notifyErr, sockFile, sigInstalled, sigPc, lastResp>>

\* (variant) the handler returns without closing the listener
PostCloseMissing(h) ==
    /\ Running /\ h.pc = "close"
    /\ conns' = Replace(conns, h, [h EXCEPT !.pc = "flush"])
    /\ UNCHANGED <<exitVars, password, polls, ln, sigChan, keptVars>>

\* (variant) the handler ends the whole process to shut the server down
PostCloseExits(h) ==
    /\ Running /\ h.pc = "close"
    /\ funnelPc' = "returned"
    /\ Exit(0)
    /\ UNCHANGED <<mainVars, notifyCalls, notifyErr, sockFile, sigInstalled,
                   sigPc, lastResp>>

\* the handler returns: the deferred ln.Close() runs.  ln.Accept() fails on
\* the closed listener, so http.Serve and StartFunnelServer return; the
\* connections already accepted keep being served.
PostClose(h) ==
    /\ Running /\ h.pc = "close"
    /\ ln' = "closed"
    /\ funnelPc' = "returned"
    /\ conns' = Replace(conns, h, [h EXCEPT !.pc = "flush"])
    /\ UNCHANGED <<exitVars, password, polls, sigChan, mainVars, notifyCalls,
                   notifyErr, sockFile, sigInstalled, sigPc, lastResp>>

\* net/http finishes the request: the buffered acknowledgment is sent and the
\* connection reads its next request
PostFlush(h) ==
    /\ Running /\ h.pc = "flush"
    /\ conns' = Replace(conns, h, IdleConn)
    /\ UNCHANGED <<exitVars, password, polls, ln, sigChan, keptVars>>

\* ======================= the local relay ================================

\* localSrv accepts a local request and runs the handler:
\* w.Header().Set("Content-Type", ...)
PollDispatch ==
    /\ Running /\ mainPc = "serving"
    /\ BagCardinality(polls) < MaxPolls
    /\ polls' = Put(polls, [pc |-> "check"])
    /\ UNCHANGED <<exitVars, password, conns, ln, sigChan, keptVars>>

\* if password == "" { w.WriteHeader(404) } else { w.WriteHeader(200) ...
\* the comparison with "" reads the length word; the 404 has no body
PollCheck(h) ==
    /\ Running /\ h.pc = "check"
    /\ IF password.len = 0
       THEN /\ polls' = polls (-) SetToBag({h})
            /\ lastResp' = [status |-> NotFound, body |-> <<>>]
       ELSE /\ polls' = Replace(polls, h, [pc |-> "load"])
            /\ UNCHANGED lastResp
    /\ UNCHANGED <<exitVars, password, conns, ln, sigChan, mainVars, funnelPc,
                   notifyCalls, notifyErr, sockFile, sigInstalled, sigPc>>

\* bytes.NewBufferString(string(password)).WriteTo(w): the second read of
\* password, both words.  A fault panics; net/http recovers the panic and
\* drops the connection without sending a response (status 0).
PollWrite(h) ==
    /\ Running /\ h.pc = "load"
    /\ polls' = polls (-) SetToBag({h})
    /\ lastResp' = IF Faults(password) THEN NoResp
                   ELSE [status |-> StatusOK, body |-> Bytes(password)]
    /\ UNCHANGED <<exitVars, password, conns, ln, sigChan, mainVars, funnelPc,
                   notifyCalls, notifyErr, sockFile, sigInstalled, sigPc>>

Conns == BagToSet(conns)
Polls == BagToSet(polls)

Next ==
    \/ LoadConfig \/ CreateAuthKey \/ ReadBody \/ GoFunnel \/ SendMessage
    \/ ListenUnix \/ LocalServe
    \/ (\E sig \in Signals : SignalDeliver(sig))
    \/ SignalExit
    \/ ListenFunnel \/ FunnelServe \/ PublicAccept
    \/ (\E h \in Conns : PublicGet(h))
    \/ (\E h \in Conns : PublicGetDone(h))
    \/ (\E h \in Conns, body \in Bodies : PostDispatch(h, body))
    \/ (\E h \in Conns, w \in Words : PostStore(h, w))
    \/ (\E h \in Conns : PostClose(h))
    \/ (\E h \in Conns : PostFlush(h))
    \/ PollDispatch
    \/ (\E h \in Polls : PollCheck(h))
    \/ (\E h \in Polls : PollWrite(h))

Spec == Init /\ [][Next]_vars

\* ======================= properties =====================================

\* The secret as the local relay sees it: Present iff password # ""
Present == password.len # 0

\* A POST / handler is dispatched in this step
PostDispatched ==
    \E h \in BagToSet(conns') :
        h.pc = "store" /\ h.stored = {} /\ CopiesIn(h, conns') > CopiesIn(h, conns)

\* The local relay answers a request in this step (or drops its connection)
PollAnswered == proc' = "running" /\ BagCardinality(polls') < BagCardinality(polls)

\* The first POST / dispatched has stored its value
FirstStored == PostSeen /\ ~\E h \in Conns : h.first

\* Every POST / dispatched so far has stored its value
WritesVisible == PostSeen /\ ~\E h \in Conns : h.pc = "store"

\* The process has ended with a non-zero status
NonZeroExit == proc = "killed" \/ (proc = "exited" /\ exitStatus # 0)

\* C1: once a local request has been answered 200, the next answers are
\* never 404.
C1_NoNotFoundAfterOK ==
    [][lastResp.status = StatusOK => lastResp'.status # NotFound]_vars

\* C2: once the first accepted submission is stored, the secret slot holds
\* its value for good: no later POST changes the slot.
C2_FirstSubmissionKept ==
    [][FirstStored /\ proc' = "running" => password' = password]_vars

\* C3: the Notifier is called only after ListenFunnel has returned a listener.
C3_NotifyAfterBind == notifyCalls > 0 => ln # "none"

\* C4: once a POST / has been processed (its handler has returned, closing the
\* listener), no further POST / is dispatched to the handler.
C4_NoPostAfterClose == [][ln = "closed" => ~PostDispatched]_vars

\* C5: when provisioning fails, by an error of the request or by a response
\* that is no credential, main exits non-zero at once: the tunnel is not
\* launched, the Notifier not called, the socket not bound.
C5_ProvisioningFailureIsFatal ==
    [][/\ provErr' # "none" =>
            /\ NonZeroExit' /\ funnelPc' = "notStarted"
            /\ notifyCalls' = 0 /\ sockFile' # "mine"
       /\ resp = "nonCredential" /\ mainPc' # mainPc => NonZeroExit']_vars

\* C6: a local GET / answered before any submission gets 404 and no body; one
\* answered when every submission's write is visible gets 200 and the value
\* in the slot as its body, whatever that value is.
C6_LocalReadGating ==
    [][PollAnswered =>
         /\ ~PostSeen => lastResp' = [status |-> NotFound, body |-> <<>>]
         /\ WritesVisible =>
               lastResp' = [status |-> StatusOK, body |-> Bytes(password)]]_vars

\* C7: a POST / handler that has closed the listener has written its value
\* before.
C7_CloseAfterWrite ==
    \A h \in Conns : h.pc = "flush" => h.stored = Words /\ ln = "closed"

C7_Witness ==
    \E h \in Conns : h.pc = "flush" /\ ln = "closed" /\ Present

\* C8 (as claimed): the secret is never Present while the public listener is
\* open.
C8_NeverPresentWhileOpen == ~(Running /\ Present /\ ln = "open")

\* C8 (amended): the secret is Present while the public listener is open only
\* as long as a POST / handler that has stored has not returned yet.
C8_PresentWhileOpenOnlyInHandler ==
    Running /\ Present /\ ln = "open" =>
        \E h \in Conns : h.pc \in {"store", "close"} /\ h.stored # {}

C8_Witness ==
    /\ Running /\ Present /\ ln = "open"
    /\ \E h \in Conns : h.pc = "close"

\* C9: a signal delivered once the socket path is bound ends the process
\* with the path removed and a non-zero status.
C9_SignalRemovesSocket ==
    [][/\ Running /\ sockFile = "mine"
       /\ proc' = "killed" \/ (proc' = "exited" /\ sigPc' = "exit")
       => sockFile' = "none" /\ NonZeroExit']_vars

\* C10: when app.SendMessage fails the process has exited non-zero, and the
\* local socket was not bound and no local request served.
C10_NotifyFailureIsFatal ==
    notifyErr =>
        /\ proc = "exited" /\ exitStatus # 0
        /\ mainPc = "fatal" /\ sockFile # "mine"
        /\ ~sigInstalled /\ lastResp = NoResp

C10_Witness == notifyErr /\ proc = "exited" /\ ln = "closed"

\* ======================= properties, continued ==========================

\* StartFunnelServer returns in this step
FunnelReturns == funnelPc # "returned" /\ funnelPc' = "returned"

\* The process ends in this step
ProcessEnds == Running /\ ~Running'

C12_SecondInstanceFailsAtBind ==
    [][sockFile = "other" =>
         /\ sockFile' = "other"
         /\ mainPc' \notin {"signalNotify", "serving"}
         /\ ~sigInstalled' /\ polls' = EmptyBag /\ lastResp' = NoResp
         /\ mainPc = "listenUnix" /\ mainPc' # mainPc =>
               mainPc' = "fatal" /\ proc' = "exited" /\ exitStatus' # 0]_vars

C12_Witness ==
    /\ sockFile = "other" /\ mainPc = "fatal" /\ proc = "exited"
    /\ notifyCalls > 0 /\ ~notifyErr /\ funnelPc # "fatal"

\* A local relay handler reads password in this step (line 187 or line 191)
PollReads ==
    /\ Running' /\ polls' # polls
    /\ BagCardinality(polls') <= BagCardinality(polls)

\* A POST / handler has stored one word of its value and not yet the other
WriteInProgress == \E h \in Conns : h.pc = "store" /\ h.stored # {}

\* C13: no local relay handler reads the secret slot while a POST / handler
\* is in the middle of writing it.
C13_NoReadDuringWrite == [][PollReads => ~WriteInProgress]_vars

\* C14: every exit the program takes (os.Exit, log.Fatal) after the socket
\* path was bound leaves the path removed.  (The default action of a signal
\* that comes before signal.Notify is C9's case.)
C14_SocketRemovedOnExit ==
    [][ProcessEnds /\ proc' = "exited" /\ sockFile = "mine" =>
         sockFile' = "none"]_vars

\* The order of main's steps
MainOrder ==
    <<"loadConfig", "createAuthKey", "readBody", "goFunnel", "notify",
      "listenUnix", "signalNotify", "serving", "fatal">>
StepOf(pc) == CHOOSE i \in 1..Len(MainOrder) : MainOrder[i] = pc

\* C15: main only moves forward through its steps (each is taken at most
\* once, none is retried); the notification is sent at most once, and only
\* after the issuance response was read without error and StartFunnelServer
\* was started; the socket is bound only after one notification was sent
\* without error.
C15_StartupOrder ==
    [][/\ mainPc' # mainPc => StepOf(mainPc') > StepOf(mainPc)
       /\ notifyCalls' <= 1
       /\ notifyCalls' > 0 =>
             funnelPc' # "notStarted" /\ resp' = "none" /\ provErr' = "none"
       /\ sockFile' = "mine" => notifyCalls' = 1 /\ ~notifyErr']_vars

C15_Witness ==
    /\ mainPc = "serving" /\ sockFile = "mine" /\ notifyCalls > 0
    /\ funnelPc = "serving" /\ authKey = "spent"

\* C16: whenever a POST / has closed the public listener and the process is
\* running, the secret is Present to the local relay.
C16_ClosedImpliesPresent == Running /\ ln = "closed" => Present

\* The handler h of the only POST / dispatched so far stores the last word of
\* its value in this step
SoleStoreDone(h) ==
    /\ h.pc = "store" /\ h.first /\ ln = "open"
    /\ CopiesIn(h, conns) = 1
    /\ \A g \in Conns : g.pc \in {"store", "close", "flush"} => g = h
    /\ conns' = Replace(conns, h, [pc |-> "close", val |-> <<>>,
                                   stored |-> Words, first |-> FALSE])

\* C17: a non-empty value submitted at any point after the tunnel was launched
\* is in the slot once its handler has stored; none of main's later startup
\* steps (notification, bind, signal handler, serve) changes the slot; and a
\* local GET / answered when the slot holds a non-empty value gets 200 and
\* that value.
C17_SubmissionNotLost ==
    [][/\ \A h \in Conns :
            SoleStoreDone(h) /\ h.val # <<>> => password' = StringHeader(h.val)
       /\ funnelPc # "notStarted" /\ mainPc' # mainPc /\ Running' =>
            password' = password
       /\ \A v \in Values \ {<<>>} :
            PollAnswered /\ WritesVisible /\ password = StringHeader(v) =>
                lastResp' = [status |-> StatusOK, body |-> v]]_vars

C17_Witness ==
    /\ lastResp = [status |-> StatusOK, body |-> <<"b", "c">>]
    /\ password = StringHeader(<<"b", "c">>)
    /\ funnelPc = "returned" /\ polls = EmptyBag

\* The listener is closed by a POST / handler in this step
ListenerCloses == ln = "open" /\ ln' = "closed" /\ Running'

\* C18: when a POST / handler closes the listener, no acknowledgment is still
\* waiting to be sent: the response of the closing handler has gone out.
C18_AckSentBeforeClose ==
    [][ListenerCloses => ~\E h \in BagToSet(conns') : h.pc = "flush"]_vars

\* A connection running the "GET /" handler
FormConn == [IdleConn EXCEPT !.pc = "form"]

\* A "GET /" handler is dispatched or returns in this step
PublicGetStep ==
    Running' /\ CopiesIn(FormConn, conns') # CopiesIn(FormConn, conns)

\* C19: a GET / on the public endpoint changes neither the secret slot nor
\* the listener, and StartFunnelServer keeps serving.
C19_PublicGetFrame ==
    [][PublicGetStep =>
         password' = password /\ ln' = ln /\ funnelPc' = funnelPc]_vars

C19_Witness ==
    /\ CopiesIn(FormConn, conns) >= 2
    /\ ln = "open" /\ ~PostSeen /\ ~Present
====
